---- MODULE Spec2Model ----
(***************************************************************************)
(* A model of the three.js demo: the frame-rate monitor (class             *)
(* FPSCounter), the render-loop controller (class Scene) with the host's   *)
(* frame scheduler and window listeners, and the application (class App).  *)
(* Timestamps are milliseconds, taken as naturals; averages are     *)
(* kept as exact fractions [num, den]; the two conversions the class uses  *)
(* (Number.toString and Number.toFixed(2)) build the decimal strings.      *)
(***************************************************************************)
EXTENDS Integers, Sequences, FiniteSets

VARIABLES
    fpsElement,        \* FPSCounter.fpsElement: the element the constructor resolved
    frameTimeElement,  \* FPSCounter.frameTimeElement
    lastTime,          \* FPSCounter.lastTime
    frames,            \* FPSCounter.frames
    currentFPS,        \* FPSCounter.currentFPS
    lastFPSUpdate,     \* FPSCounter.lastFPSUpdate
    frameTimes,        \* FPSCounter.frameTimes
    textContent,       \* the document: element id -> textContent
    domWrites,         \* number of assignments made to the FPS element's textContent
    clock,             \* the host's monotonic timestamp at the latest frame
    trace,             \* the calls made on the monitor so far, in order
    document,          \* the ids of the elements present in the page
    construction,      \* the outcome of `new FPSCounter(fpsId, frameTimeId)`
    animationId,       \* Scene.animationId (NoHandle for null)
    pending,           \* the host scheduler: frame callbacks requested, not yet run
    nextHandle,        \* the id the next requestAnimationFrame call returns
    listeners,         \* the listeners registered on window
    clientSize,        \* <<container.clientWidth, container.clientHeight>>
    cameraAspect,      \* Scene.camera.aspect
    rendererSize,      \* the size last given to Scene.renderer.setSize
    canvasParent,      \* Scene.renderer.domElement.parentElement
    sceneObjects,      \* the children of Scene.scene
    headModel,         \* Scene.headModel
    headLoad,          \* the promise returned by modelLoader.loadOBJ(head)
    sceneDisposed,     \* dispose() has been called on the controller
    sceneLast,         \* the latest step of the controller and what it did
    keys,              \* Scene.keys: key identifier -> boolean
    executing          \* the statements the running frame callback has yet to run

monitor == <<fpsElement, frameTimeElement, lastTime, frames, currentFPS,
             lastFPSUpdate, frameTimes>>

page == <<document, construction>>

\* The monitor and the page it writes to.
monitorVars == <<fpsElement, frameTimeElement, lastTime, frames, currentFPS,
                 lastFPSUpdate, frameTimes, textContent, domWrites, clock,
                 trace, page>>

\* The render-loop controller (class Scene) and the host facilities it uses.
sceneVars == <<animationId, pending, nextHandle, listeners, clientSize,
               cameraAspect, rendererSize, canvasParent, sceneObjects,
               headModel, headLoad, sceneDisposed, sceneLast, keys, executing>>

vars == <<monitorVars, sceneVars>>

----------------------------------------------------------------------------
(* Program constants and the bounds of the model.                          *)

fpsUpdateInterval == 1000

maxFrameSamples == 60

\* Calls (update or dispose) in one run of Spec.
MaxOps == 6

\* Calls in one run of SpecSteady, enough to overflow the sample window.
MaxSteadyOps == 64

\* dispose() calls in one run of SpecSteady.
MaxSteadyDisposes == 1

\* Frame spacings the host may deliver (ms): a repeated timestamp, a 60 Hz
\* frame, a stalled frame, and a stall of exactly the display interval.
Deltas == {0, 16, 500, 1000}

\* The spacings of a steady 60 Hz frame stream in whole milliseconds (the
\* 16.67 ms of the test loops).
SteadyDeltas == {16, 17}

\* The ids the application passes to the constructor, present in the page.
FpsId == "fps"

FrameTimeId == "frametime"

----------------------------------------------------------------------------
(* Pure helpers.                                                           *)

\* frameTimes.reduce((a, b) => a + b, 0)
RECURSIVE Sum(_)
Sum(s) == IF s = <<>> THEN 0 ELSE s[1] + Sum(Tail(s))

\* reduce(...) / frameTimes.length, as an exact fraction
Average(s) == [num |-> Sum(s), den |-> Len(s)]

\* the number 0 returned by getCurrentFrameTime() for an empty window
Zero == [num |-> 0, den |-> 1]

\* a / b rounded down, for b > 0
FloorDiv(a, b) == a \div b

\* A rate rounded down (Math.floor) instead of to the nearest integer.
RoundFPSFloor(avg) ==
    IF avg.num > 0 THEN FloorDiv(1000 * avg.den, avg.num) ELSE 0

\* avgFrameTime > 0 ? Math.round(1000 / avgFrameTime) : 0
\* Math.round rounds to the nearest integer, ties towards +infinity.
RoundFPS(avg) ==
    IF avg.num > 0
    THEN FloorDiv(2 * 1000 * avg.den + avg.num, 2 * avg.num)
    ELSE 0

Digit(d) == CASE d = 0 -> "0" [] d = 1 -> "1" [] d = 2 -> "2" [] d = 3 -> "3"
              [] d = 4 -> "4" [] d = 5 -> "5" [] d = 6 -> "6" [] d = 7 -> "7"
              [] d = 8 -> "8" [] d = 9 -> "9"

\* Number.prototype.toString() of a non-negative integer
RECURSIVE ToString(_)
ToString(n) == IF n < 10 THEN Digit(n) ELSE ToString(n \div 10) \o Digit(n % 10)

\* Number.prototype.toFixed(2) of a non-negative fraction: the nearest
\* multiple of 1/100 (the larger one on a tie), with two decimals.
ToFixed2(avg) ==
    LET h == FloorDiv(2 * 100 * avg.num + avg.den, 2 * avg.den)
    IN  ToString(h \div 100) \o "." \o Digit((h \div 10) % 10) \o Digit(h % 10)

\* A guard that takes the initial lastTime for a recorded timestamp.
HasLastTimeAlways(lt) == lt >= 0

\* if (this.lastTime > 0): a previous timestamp has been recorded
HasLastTime(lt) == lt > 0

\* A window that is never trimmed.
TrimSamplesNever(ft) == ft

\* A trim that drops the newest sample (pop) instead of the oldest.
TrimSamplesNewest(ft) ==
    IF Len(ft) > maxFrameSamples THEN SubSeq(ft, 1, Len(ft) - 1) ELSE ft

\* if (this.frameTimes.length > this.maxFrameSamples) this.frameTimes.shift()
TrimSamples(ft) == IF Len(ft) > maxFrameSamples THEN Tail(ft) ELSE ft

\* this.frameTimes.push(deltaTime), then the trim
PushSample(ft, deltaTime) == TrimSamples(Append(ft, deltaTime))

\* A display gate that ignores the interval.
DisplayDueNoInterval(currentTime, last, ft) == Len(ft) > 0

\* A display gate that wants more than the interval to have passed.
DisplayDueStrict(currentTime, last, ft) ==
    /\ currentTime - last > fpsUpdateInterval
    /\ Len(ft) > 0

\* the two nested conditions guarding the DOM update
DisplayDue(currentTime, last, ft) ==
    /\ currentTime - last >= fpsUpdateInterval
    /\ Len(ft) > 0

\* getCurrentFPS()
getCurrentFPS == currentFPS

\* getCurrentFrameTime()
getCurrentFrameTime == IF Len(frameTimes) = 0 THEN Zero ELSE Average(frameTimes)

----------------------------------------------------------------------------
(* Construction.                                                           *)

\* The value of a reference to no element.
NoElement == "null"

\* document.getElementById(id): elements are told apart by their ids.
getElementById(doc, id) == IF id \in doc THEN id ELSE NoElement

Thrown(fpsElementId, frameTimeElementId, msg) ==
    [state |-> "threw", fpsId |-> fpsElementId, frameTimeId |-> frameTimeElementId,
     message |-> msg, fpsElement |-> NoElement, frameTimeElement |-> NoElement]

\* A constructor that only checks the FPS element.
ConstructorChecksFpsOnly(doc, fpsElementId, frameTimeElementId) ==
    LET fpsEl == getElementById(doc, fpsElementId)
        frameTimeEl == getElementById(doc, frameTimeElementId)
    IN  IF fpsEl = NoElement
        THEN Thrown(fpsElementId, frameTimeElementId, "FPS element not found")
        ELSE [state |-> "ok", fpsId |-> fpsElementId,
              frameTimeId |-> frameTimeElementId, message |-> "",
              fpsElement |-> fpsEl, frameTimeElement |-> frameTimeEl]

\* constructor(fpsElementId, frameTimeElementId): what it throws or stores
Constructor(doc, fpsElementId, frameTimeElementId) ==
    LET fpsEl == getElementById(doc, fpsElementId)
        frameTimeEl == getElementById(doc, frameTimeElementId)
    IN  IF fpsEl = NoElement
        THEN Thrown(fpsElementId, frameTimeElementId, "FPS element not found")
        ELSE IF frameTimeEl = NoElement
        THEN Thrown(fpsElementId, frameTimeElementId,
                    "Frame time element not found")
        ELSE [state |-> "ok", fpsId |-> fpsElementId,
              frameTimeId |-> frameTimeElementId, message |-> "",
              fpsElement |-> fpsEl, frameTimeElement |-> frameTimeEl]

\* No constructor call has been made yet.
NotConstructed ==
    [state |-> "none", fpsId |-> "", frameTimeId |-> "", message |-> "",
     fpsElement |-> NoElement, frameTimeElement |-> NoElement]

----------------------------------------------------------------------------
(* The state after `new FPSCounter('fps', 'frametime')` on a page holding  *)
(* both elements, with no text in them yet.                                *)

MonitorInit ==
    /\ document = {FpsId, FrameTimeId}
    /\ construction = Constructor(document, FpsId, FrameTimeId)
    /\ fpsElement = construction.fpsElement
    /\ frameTimeElement = construction.frameTimeElement
    /\ lastTime = 0
    /\ frames = 0
    /\ currentFPS = 0
    /\ lastFPSUpdate = 0
    /\ frameTimes = <<>>
    /\ textContent = [e \in {FpsId, FrameTimeId} |-> ""]
    /\ domWrites = 0
    /\ clock = 0
    /\ trace = <<>>

----------------------------------------------------------------------------
(* The render-loop controller (class Scene): JavaScript numbers, the       *)
(* host's frame scheduler and window listeners, and construction.          *)

\* animationId = null
NoHandle == 0

\* The host hands out the frame-callback ids 1..MaxHandle in turn and then
\* starts over.
MaxHandle == 3

RECURSIVE GCD(_, _)
GCD(a, b) == IF b = 0 THEN a ELSE GCD(b, a % b)

\* The number n / d, for n >= 0 and d > 0, in lowest terms.
Finite(n, d) ==
    LET g == GCD(n, d) IN [kind |-> "finite", num |-> n \div g, den |-> d \div g]

Infinity == [kind |-> "Infinity", num |-> 1, den |-> 0]

NaN == [kind |-> "NaN", num |-> 0, den |-> 0]

One == Finite(1, 1)

\* a / b on non-negative JavaScript numbers: x / 0 is Infinity, 0 / 0 is NaN
JsDivide(a, b) == IF b # 0 THEN Finite(a, b) ELSE IF a # 0 THEN Infinity ELSE NaN

\* ToBoolean of a number: 0 and NaN are falsy
Truthy(x) == x.kind = "Infinity" \/ (x.kind = "finite" /\ x.num # 0)

\* x || y
OrElse(x, y) == IF Truthy(x) THEN x ELSE y

\* const aspect = container.clientWidth / container.clientHeight || 1
InitialAspect(size) == OrElse(JsDivide(size[1], size[2]), One)

\* An aspect computed as height / width.
ResizedAspectInverted(size) == JsDivide(size[2], size[1])

\* this.camera.aspect = width / height
ResizedAspect(size) == JsDivide(size[1], size[2])

\* the id after h in the host's sequence of frame-callback ids
NextHandleAfter(h) == IF h >= MaxHandle THEN 1 ELSE h + 1

\* A request the host never registers.
RequestDropped(p, h, who) == p

\* requestAnimationFrame(callback) returning id h
Request(p, h, who) == p \cup {[id |-> h, owner |-> who]}

\* A cancellation the host ignores.
CancelNothing(p, h) == p

\* cancelAnimationFrame(h)
Cancel(p, h) == {c \in p : c.id # h}

\* The frame callbacks of the controller's loop that are pending.
ScenePending == {c \in pending : c.owner = "scene"}

\* A function object that is none of the registered ones: what an arrow
\* function expression or handleResize.bind(this) evaluates to.
FreshFunction(ls) == CHOOSE f \in 1..(Cardinality(ls) + 1) : \A l \in ls : l.fn # f

\* window.addEventListener(type, f)
AddListener(ls, type, f) == ls \cup {[type |-> type, fn |-> f]}

\* window.removeEventListener(type, f): removes the listener that is f
RemoveListener(ls, type, f) == {l \in ls : ~(l.type = type /\ l.fn = f)}

\* The listeners the constructor registers: keydown, keyup, then resize.
ConstructorListeners ==
    LET l1 == AddListener({}, "keydown", FreshFunction({}))
        l2 == AddListener(l1, "keyup", FreshFunction(l1))
    IN  AddListener(l2, "resize", FreshFunction(l2))

\* The objects the constructor adds to the scene.
InitialObjects == {"ambientLight", "directionalLight", "boundary", "skybox", "floor"}

NoParent == "null"

NoModel == "null"

\* The canvas stays where it is.
RemoveCanvasSkipped(parent) == parent

\* if (domElement.parentElement) domElement.parentElement.removeChild(domElement)
RemoveCanvas(parent) == IF parent # NoParent THEN NoParent ELSE parent

\* A loadOBJ that adds its object to the scene before the load has ended.
LoadOBJAddsEarly(r, addToScene, objs) ==
    [promise |-> IF r.ok THEN "fulfilled" ELSE "rejected",
     value |-> IF r.ok THEN r.object ELSE NoModel,
     error |-> IF r.ok THEN "" ELSE r.error,
     scene |-> IF addToScene THEN objs \cup {r.object} ELSE objs]

\* ModelLoader.loadOBJ, given how loadOBJInternal's promise settles: the
\* promise it returns and the children of the scene afterwards.
LoadOBJ(r, addToScene, objs) ==
    IF r.ok
    THEN [promise |-> "fulfilled", value |-> r.object, error |-> "",
          scene |-> IF addToScene THEN objs \cup {r.object} ELSE objs]
    ELSE [promise |-> "rejected", value |-> NoModel, error |-> r.error,
          scene |-> objs]

\* The ways OBJLoader.load may end: onLoad(object) or onError(error).
LoadResults ==
    {[ok |-> TRUE, object |-> "head", error |-> ""]}
      \cup {[ok |-> FALSE, object |-> "head", error |-> e] :
                e \in {"Failed to load", "404 Not Found"}}

\* Container sizes the host may lay out, with the ones of the resize test.
ContainerSizes == {<<0, 0>>, <<800, 0>>, <<0, 600>>, <<800, 600>>, <<1920, 1080>>}

TestSize == <<800, 600>>

\* keys = {}: no key has an entry
NoKeys == [k \in {} |-> FALSE]

\* What sceneLast records of a step.
Step(op, wasRunning, draws, handled, err) ==
    [op |-> op, prev |-> sceneLast.op, wasRunning |-> wasRunning,
     draws |-> draws, handled |-> handled, error |-> err]

\* The state after `new Scene(container)` on a container of the given size.
SceneConstructed(size) ==
    /\ animationId = NoHandle
    /\ pending = {}
    /\ nextHandle = 1
    /\ listeners = ConstructorListeners
    /\ clientSize = size
    /\ cameraAspect = InitialAspect(size)
    /\ rendererSize = size
    /\ canvasParent = "container"
    /\ sceneObjects = InitialObjects
    /\ headModel = NoModel
    /\ headLoad = [promise |-> "pending", value |-> NoModel, error |-> ""]
    /\ sceneDisposed = FALSE
    /\ sceneLast = [op |-> "new", prev |-> "", wasRunning |-> FALSE,
                    draws |-> 0, handled |-> 0, error |-> ""]
    /\ keys = NoKeys
    /\ executing = <<>>

\* Both components constructed, as the application does.
Init == MonitorInit /\ SceneConstructed(TestSize)

\* update(currentTime)
Update(currentTime) ==
    LET measured == HasLastTime(lastTime)
        ft == IF measured THEN PushSample(frameTimes, currentTime - lastTime)
                          ELSE frameTimes
        fps == IF measured /\ Len(ft) > 0 THEN RoundFPS(Average(ft)) ELSE currentFPS
        due == DisplayDue(currentTime, lastFPSUpdate, ft)
    IN  /\ frameTimes' = ft
        /\ currentFPS' = fps
        /\ IF due
           THEN /\ textContent' = [textContent EXCEPT
                                     ![fpsElement] = ToString(fps),
                                     ![frameTimeElement] = ToFixed2(Average(ft))]
                /\ domWrites' = domWrites + 1
                /\ frames' = 0
                /\ lastFPSUpdate' = currentTime
           ELSE /\ frames' = IF measured THEN frames + 1 ELSE frames
                /\ UNCHANGED <<textContent, domWrites, lastFPSUpdate>>
        /\ lastTime' = currentTime
        /\ UNCHANGED <<fpsElement, frameTimeElement>>

\* A dispose() that leaves currentFPS as it was.
DisposeKeepsFPS ==
    /\ lastTime' = 0
    /\ frames' = 0
    /\ frameTimes' = <<>>
    /\ textContent' = [textContent EXCEPT ![fpsElement] = "0",
                                          ![frameTimeElement] = "0"]
    /\ domWrites' = domWrites + 1
    /\ UNCHANGED <<fpsElement, frameTimeElement, lastFPSUpdate, currentFPS>>

\* A dispose() that appends "0" to the texts instead of setting them.
DisposeAppendsText ==
    /\ lastTime' = 0
    /\ frames' = 0
    /\ currentFPS' = 0
    /\ frameTimes' = <<>>
    /\ textContent' = [textContent EXCEPT
                         ![fpsElement] = textContent[fpsElement] \o "0",
                         ![frameTimeElement] = textContent[frameTimeElement] \o "0"]
    /\ domWrites' = domWrites + 1
    /\ UNCHANGED <<fpsElement, frameTimeElement, lastFPSUpdate>>

\* dispose()
Dispose ==
    /\ lastTime' = 0
    /\ frames' = 0
    /\ currentFPS' = 0
    /\ frameTimes' = <<>>
    /\ textContent' = [textContent EXCEPT ![fpsElement] = "0",
                                          ![frameTimeElement] = "0"]
    /\ domWrites' = domWrites + 1
    /\ UNCHANGED <<fpsElement, frameTimeElement, lastFPSUpdate>>

UpdateEvent(t, w) == [op |-> "update", time |-> t, wrote |-> w]

DisposeEvent(t) == [op |-> "dispose", time |-> t, wrote |-> FALSE]

\* The host delivers a frame d ms after the previous one: animate(time)
\* calls fpsCounter.update(time).
Frame(d) ==
    /\ Update(clock + d)
    /\ clock' = clock + d
    /\ trace' = Append(trace, UpdateEvent(clock + d, domWrites' # domWrites))
    /\ UNCHANGED <<page, sceneVars>>

\* The application disposes the monitor.
DisposeCall ==
    /\ Dispose
    /\ UNCHANGED <<clock, page, sceneVars>>
    /\ trace' = Append(trace, DisposeEvent(clock))

AnyFrame == Len(trace) < MaxOps /\ \E d \in Deltas : Frame(d)

AnyDispose == Len(trace) < MaxOps /\ DisposeCall

Next == AnyFrame \/ AnyDispose

Spec == Init /\ [][Next]_vars

----------------------------------------------------------------------------
(* A steady frame stream: the first frame arrives at any of the timestamps *)
(* above, the later ones every 16.67 ms rounded down to whole milliseconds *)
(* (spacings 16, 17, 17, ...), long enough for the sample window to        *)
(* overflow; dispose() may interrupt it.                                   *)

\* The spacing that follows the k-th call of the stream.
SteadySpacing(k) == (50 * (k + 1)) \div 3 - (50 * k) \div 3

Disposals(tr) == Cardinality({i \in 1..Len(tr) : tr[i].op = "dispose"})

SteadyFrame ==
    /\ Len(trace) < MaxSteadyOps
    /\ \E d \in (IF trace = <<>> THEN Deltas ELSE SteadyDeltas) :
          /\ trace # <<>> => d = SteadySpacing(Len(trace))
          /\ Frame(d)

SteadyDispose ==
    /\ Len(trace) < MaxSteadyOps
    /\ Disposals(trace) < MaxSteadyDisposes
    /\ DisposeCall

NextSteady == SteadyFrame \/ SteadyDispose

SpecSteady == Init /\ [][NextSteady]_vars

----------------------------------------------------------------------------
(* Construction on any page: the page holds any of the elements below, the *)
(* application passes any two ids, and a monitor that was constructed is   *)
(* then used.                                                              *)

ElementIds == {"fps", "frametime", "app"}

IdArguments == {"fps", "frametime", "missing"}

InitPage ==
    /\ SceneConstructed(TestSize)
    /\ document \in SUBSET ElementIds
    /\ construction = NotConstructed
    /\ fpsElement = NoElement
    /\ frameTimeElement = NoElement
    /\ lastTime = 0
    /\ frames = 0
    /\ currentFPS = 0
    /\ lastFPSUpdate = 0
    /\ frameTimes = <<>>
    /\ textContent = [e \in document |-> ""]
    /\ domWrites = 0
    /\ clock = 0
    /\ trace = <<>>

\* new FPSCounter(fpsId, frameTimeId)
Construct ==
    /\ construction.state = "none"
    /\ \E fpsId \in IdArguments : \E frameTimeId \in IdArguments :
          /\ construction' = Constructor(document, fpsId, frameTimeId)
          /\ fpsElement' = construction'.fpsElement
          /\ frameTimeElement' = construction'.frameTimeElement
    /\ UNCHANGED <<lastTime, frames, currentFPS, lastFPSUpdate, frameTimes,
                   textContent, domWrites, clock, trace, document, sceneVars>>

ConstructedFrame == construction.state = "ok" /\ AnyFrame

ConstructedDispose == construction.state = "ok" /\ AnyDispose

NextConstruct == Construct \/ ConstructedFrame \/ ConstructedDispose

SpecConstruct == InitPage /\ [][NextConstruct]_vars

----------------------------------------------------------------------------
(* The operations of the render-loop controller and the host events that   *)
(* reach it.                                                               *)

\* A start() that does not look at animationId.
AlreadyRunningNever(id) == FALSE

\* if (this.animationId !== null) return
AlreadyRunning(id) == id # NoHandle

\* animate(): this.animationId = requestAnimationFrame(animate); this.render()
Animate(p) ==
    /\ animationId' = nextHandle
    /\ pending' = Request(p, nextHandle, "scene")
    /\ nextHandle' = NextHandleAfter(nextHandle)

\* start()
SceneStart ==
    /\ IF AlreadyRunning(animationId)
       THEN /\ UNCHANGED <<animationId, pending, nextHandle>>
            /\ sceneLast' = Step("start", animationId # NoHandle, 0, 0, "")
       ELSE /\ Animate(pending)
            /\ sceneLast' = Step("start", animationId # NoHandle, 1, 0, "")
    /\ UNCHANGED <<listeners, clientSize, cameraAspect, rendererSize,
                   canvasParent, sceneObjects, headModel, headLoad,
                   sceneDisposed, keys, executing, monitorVars>>

\* A stop() that cancels the callback and keeps the id.
StopKeepsId ==
    IF animationId # NoHandle
    THEN /\ pending' = Cancel(pending, animationId)
         /\ UNCHANGED animationId
    ELSE UNCHANGED <<pending, animationId>>

\* stop(): what it does to the scheduler and to animationId
Stop ==
    IF animationId # NoHandle
    THEN /\ pending' = Cancel(pending, animationId)
         /\ animationId' = NoHandle
    ELSE UNCHANGED <<pending, animationId>>

\* stop()
SceneStop ==
    /\ Stop
    /\ sceneLast' = Step("stop", animationId # NoHandle, 0, 0, "")
    /\ UNCHANGED <<nextHandle, listeners, clientSize, cameraAspect,
                   rendererSize, canvasParent, sceneObjects, headModel,
                   headLoad, sceneDisposed, keys, executing, monitorVars>>

\* A render() that schedules a frame callback as animate() does.
SceneRenderRearms ==
    /\ Animate(pending)
    /\ sceneLast' = Step("render", animationId # NoHandle, 1, 0, "")
    /\ UNCHANGED <<listeners, clientSize, cameraAspect, rendererSize,
                   canvasParent, sceneObjects, headModel, headLoad,
                   sceneDisposed, keys, executing, monitorVars>>

\* render(), called directly
SceneRender ==
    /\ sceneLast' = Step("render", animationId # NoHandle, 1, 0, "")
    /\ UNCHANGED <<animationId, pending, nextHandle, listeners, clientSize,
                   cameraAspect, rendererSize, canvasParent, sceneObjects,
                   headModel, headLoad, sceneDisposed, keys, executing, monitorVars>>

\* The host runs a pending frame callback of the loop: animate().
FrameFire ==
    /\ \E c \in ScenePending : Animate(pending \ {c})
    /\ sceneLast' = Step("frame", animationId # NoHandle, 1, 0, "")
    /\ UNCHANGED <<listeners, clientSize, cameraAspect, rendererSize,
                   canvasParent, sceneObjects, headModel, headLoad,
                   sceneDisposed, keys, executing, monitorVars>>

\* handleResize(): what it does to the camera and the renderer
Resize ==
    /\ cameraAspect' = ResizedAspect(clientSize)
    /\ rendererSize' = clientSize

\* handleResize(), called directly
HandleResizeCall ==
    /\ Resize
    /\ sceneLast' = Step("handleResize", animationId # NoHandle, 0, 1, "")
    /\ UNCHANGED <<animationId, pending, nextHandle, listeners, clientSize,
                   canvasParent, sceneObjects, headModel, headLoad,
                   sceneDisposed, keys, executing, monitorVars>>

\* The resize listeners registered on window.
ResizeListeners == {l \in listeners : l.type = "resize"}

\* The window dispatches 'resize': every registered resize listener runs.
ResizeEvent ==
    /\ IF ResizeListeners # {} THEN Resize
                               ELSE UNCHANGED <<cameraAspect, rendererSize>>
    /\ sceneLast' = Step("resizeEvent", animationId # NoHandle, 0,
                         Cardinality(ResizeListeners), "")
    /\ UNCHANGED <<animationId, pending, nextHandle, listeners, clientSize,
                   canvasParent, sceneObjects, headModel, headLoad,
                   sceneDisposed, keys, executing, monitorVars>>

\* The host lays the container out at another size.
SetContainerSize ==
    /\ \E size \in ContainerSizes : size # clientSize /\ clientSize' = size
    /\ sceneLast' = Step("layout", animationId # NoHandle, 0, 0, "")
    /\ UNCHANGED <<animationId, pending, nextHandle, listeners, cameraAspect,
                   rendererSize, canvasParent, sceneObjects, headModel,
                   headLoad, sceneDisposed, keys, executing, monitorVars>>

\* A dispose() without scene.clear().
SceneDisposeKeepsScene ==
    /\ Stop
    /\ listeners' = RemoveListener(listeners, "resize", FreshFunction(listeners))
    /\ canvasParent' = RemoveCanvas(canvasParent)
    /\ sceneDisposed' = TRUE
    /\ sceneLast' = Step("dispose", animationId # NoHandle, 0, 0, "")
    /\ UNCHANGED <<nextHandle, clientSize, cameraAspect, rendererSize,
                   sceneObjects, headModel, headLoad, keys, executing,
                   monitorVars>>

\* dispose()
SceneDispose ==
    /\ Stop
    /\ listeners' = RemoveListener(listeners, "resize", FreshFunction(listeners))
    /\ canvasParent' = RemoveCanvas(canvasParent)
    /\ sceneObjects' = {}
    /\ sceneDisposed' = TRUE
    /\ sceneLast' = Step("dispose", animationId # NoHandle, 0, 0, "")
    /\ UNCHANGED <<nextHandle, clientSize, cameraAspect, rendererSize,
                   headModel, headLoad, keys, executing, monitorVars>>

\* The load started by the constructor ends: loadOBJ's promise settles and
\* loadHeadModel continues after its await, or catches the rejection.
LoadSettles ==
    /\ headLoad.promise = "pending"
    /\ \E r \in LoadResults :
          LET out == LoadOBJ(r, TRUE, sceneObjects)
          IN  /\ headLoad' = [promise |-> out.promise, value |-> out.value,
                              error |-> out.error]
              /\ sceneObjects' = out.scene
              /\ headModel' = IF out.promise = "fulfilled" THEN out.value
                                                           ELSE headModel
              /\ sceneLast' = Step("load", animationId # NoHandle, 0, 0, r.error)
    /\ UNCHANGED <<animationId, pending, nextHandle, listeners, clientSize,
                   cameraAspect, rendererSize, canvasParent, sceneDisposed,
                   keys, executing, monitorVars>>

SceneInit == MonitorInit /\ \E size \in ContainerSizes : SceneConstructed(size)

NextScene ==
    \/ SceneStart
    \/ SceneStop
    \/ SceneRender
    \/ FrameFire
    \/ HandleResizeCall
    \/ ResizeEvent
    \/ SetContainerSize
    \/ SceneDispose
    \/ LoadSettles

SpecScene == SceneInit /\ [][NextScene]_vars

\* The host runs a pending frame callback at the next display refresh.
SpecSceneFair == SceneInit /\ [][NextScene]_vars /\ WF_vars(FrameFire)

----------------------------------------------------------------------------
(* The frame callback statement by statement.  The host runs one callback  *)
(* at a time and to its end; code that render() runs (a listener of the    *)
(* controls, a hook of the renderer) may call stop() before the draw.      *)

\* An animate() that renders before it schedules the next callback.
AnimateBodyRenderFirst == <<"render", "request">>

\* The statements of animate(), in order:
\*   this.animationId = requestAnimationFrame(animate); this.render();
AnimateBody == <<"request", "render">>

\* The host takes a pending frame callback of the loop and enters animate().
CallbackBegin ==
    /\ executing = <<>>
    /\ \E c \in ScenePending : pending' = pending \ {c}
    /\ executing' = AnimateBody
    /\ sceneLast' = Step("callback", animationId # NoHandle, 0, 0, "")
    /\ UNCHANGED <<animationId, nextHandle, listeners, clientSize,
                   cameraAspect, rendererSize, canvasParent, sceneObjects,
                   headModel, headLoad, sceneDisposed, keys, monitorVars>>

\* The executing callback runs its next statement.
CallbackStep ==
    /\ executing # <<>>
    /\ IF Head(executing) = "request"
       THEN /\ Animate(pending)
            /\ sceneLast' = Step("request", animationId # NoHandle, 0, 0, "")
       ELSE /\ sceneLast' = Step("draw", animationId # NoHandle, 1, 0, "")
            /\ UNCHANGED <<animationId, pending, nextHandle>>
    /\ executing' = Tail(executing)
    /\ UNCHANGED <<listeners, clientSize, cameraAspect, rendererSize,
                   canvasParent, sceneObjects, headModel, headLoad,
                   sceneDisposed, keys, monitorVars>>

\* stop() called by code that the executing callback's render() runs.
StopInCallback ==
    /\ executing # <<>>
    /\ Head(executing) = "render"
    /\ sceneLast.op # "stop"
    /\ Stop
    /\ sceneLast' = Step("stop", animationId # NoHandle, 0, 0, "")
    /\ UNCHANGED <<nextHandle, listeners, clientSize, cameraAspect,
                   rendererSize, canvasParent, sceneObjects, headModel,
                   headLoad, sceneDisposed, keys, executing, monitorVars>>

\* The operations called between callbacks.
BetweenCallbacks ==
    /\ executing = <<>>
    /\ SceneStart \/ SceneStop \/ SceneRender \/ SceneDispose

NextLoop == CallbackBegin \/ CallbackStep \/ StopInCallback \/ BetweenCallbacks

\* A callback that has begun runs to its end.
SpecLoop == SceneInit /\ [][NextLoop]_vars /\ WF_vars(CallbackStep)

----------------------------------------------------------------------------
(* Keyboard input: the window dispatches keydown and keyup events to the   *)
(* listeners registered for them.                                          *)

\* The values of KeyboardEvent.key the host may deliver.
KeyIds == {"w", "W", "ArrowLeft"}

\* String.prototype.toLowerCase on the key identifiers
ToLowerCase(k) ==
    CASE k = "W" -> "w"
      [] k = "ArrowLeft" -> "arrowleft"
      [] OTHER -> k

\* this.keys[k] = v
SetKey(ks, k, v) ==
    [x \in DOMAIN ks \cup {k} |-> IF x = k THEN v ELSE ks[x]]

\* The listeners registered on window for events of the given type.
ListenersOf(type) == {l \in listeners : l.type = type}

\* The window dispatches `type` for key k: each listener registered for it
\* runs, which sets keys[k.toLowerCase()] = v.
KeyEvent(type, k, v) ==
    /\ keys' = IF ListenersOf(type) # {} THEN SetKey(keys, ToLowerCase(k), v)
                                         ELSE keys
    /\ sceneLast' = Step(type, animationId # NoHandle, 0,
                         Cardinality(ListenersOf(type)), "")
    /\ UNCHANGED <<animationId, pending, nextHandle, listeners, clientSize,
                   cameraAspect, rendererSize, canvasParent, sceneObjects,
                   headModel, headLoad, sceneDisposed, executing, monitorVars>>

\* (e) => { this.keys[e.key.toLowerCase()] = true }
KeyDown == \E k \in KeyIds : KeyEvent("keydown", k, TRUE)

\* (e) => { this.keys[e.key.toLowerCase()] = false }
KeyUp == \E k \in KeyIds : KeyEvent("keyup", k, FALSE)

NextInput ==
    \/ KeyDown
    \/ KeyUp
    \/ SceneStart
    \/ SceneStop
    \/ SceneRender
    \/ SceneDispose

SpecInput == SceneInit /\ [][NextInput]_vars

----------------------------------------------------------------------------
(* The application (class App): it constructs the controller and the       *)
(* monitor, runs its own frame loop that feeds both, and disposes both.    *)

\* The frame callbacks of the application's loop that are pending.
AppPending == {c \in pending : c.owner = "app"}

\* The state after `new App()` and the registration of the unload hook:
\* both components constructed and the first frame callback requested.
AppConstructed ==
    /\ MonitorInit
    /\ animationId = NoHandle
    /\ pending = Request({}, 1, "app")
    /\ nextHandle = NextHandleAfter(1)
    /\ listeners = AddListener(ConstructorListeners, "beforeunload",
                               FreshFunction(ConstructorListeners))
    /\ clientSize = TestSize
    /\ cameraAspect = InitialAspect(TestSize)
    /\ rendererSize = TestSize
    /\ canvasParent = "container"
    /\ sceneObjects = InitialObjects
    /\ headModel = NoModel
    /\ headLoad = [promise |-> "pending", value |-> NoModel, error |-> ""]
    /\ sceneDisposed = FALSE
    /\ sceneLast = [op |-> "new", prev |-> "", wasRunning |-> FALSE,
                    draws |-> 0, handled |-> 0, error |-> ""]
    /\ keys = NoKeys
    /\ executing = <<>>

\* The host runs the application's frame callback d ms after the previous
\* frame: requestAnimationFrame(animate); fpsCounter.update(time);
\* scene.render().
AppFrame(d) ==
    /\ \E c \in AppPending :
          pending' = Request(pending \ {c}, nextHandle, "app")
    /\ nextHandle' = NextHandleAfter(nextHandle)
    /\ Update(clock + d)
    /\ clock' = clock + d
    /\ trace' = Append(trace, UpdateEvent(clock + d, domWrites' # domWrites))
    /\ sceneLast' = Step("render", animationId # NoHandle, 1, 0, "")
    /\ UNCHANGED <<page, animationId, listeners, clientSize, cameraAspect,
                   rendererSize, canvasParent, sceneObjects, headModel,
                   headLoad, sceneDisposed, keys, executing>>

AppAnyFrame == Len(trace) < MaxOps /\ \E d \in Deltas : AppFrame(d)

\* App.dispose(): scene.dispose(); fpsCounter.dispose()
AppDispose ==
    /\ Len(trace) < MaxOps
    /\ Stop
    /\ listeners' = RemoveListener(listeners, "resize", FreshFunction(listeners))
    /\ canvasParent' = RemoveCanvas(canvasParent)
    /\ sceneObjects' = {}
    /\ sceneDisposed' = TRUE
    /\ sceneLast' = Step("dispose", animationId # NoHandle, 0, 0, "")
    /\ Dispose
    /\ trace' = Append(trace, DisposeEvent(clock))
    /\ UNCHANGED <<clock, page, nextHandle, clientSize, cameraAspect,
                   rendererSize, headModel, headLoad, keys, executing>>

NextApp == AppAnyFrame \/ AppDispose

SpecApp == AppConstructed /\ [][NextApp]_vars

----------------------------------------------------------------------------
(* A second monitor, as a value: what a newly constructed FPSCounter does  *)
(* when it is fed a sequence of timestamps.                                *)

\* The fields of a monitor right after construction; wrote tells whether
\* the latest update() wrote to the display.
FreshMonitor ==
    [lastTime |-> 0, frames |-> 0, currentFPS |-> 0, lastFPSUpdate |-> 0,
     frameTimes |-> <<>>, wrote |-> FALSE]

\* update(currentTime) on the monitor m
UpdateFrom(m, currentTime) ==
    LET measured == HasLastTime(m.lastTime)
        ft == IF measured THEN PushSample(m.frameTimes, currentTime - m.lastTime)
                          ELSE m.frameTimes
        fps == IF measured /\ Len(ft) > 0 THEN RoundFPS(Average(ft))
                                          ELSE m.currentFPS
        due == DisplayDue(currentTime, m.lastFPSUpdate, ft)
    IN  [lastTime |-> currentTime,
         frames |-> IF due THEN 0 ELSE IF measured THEN m.frames + 1 ELSE m.frames,
         currentFPS |-> fps,
         lastFPSUpdate |-> IF due THEN currentTime ELSE m.lastFPSUpdate,
         frameTimes |-> ft,
         wrote |-> due]

\* update(times[1]); ...; update(times[n]) on the monitor m
RECURSIVE Replay(_, _)
Replay(m, times) ==
    IF times = <<>> THEN m ELSE Replay(UpdateFrom(m, Head(times)), Tail(times))

----------------------------------------------------------------------------
(* What the trace says about a run.                                        *)

Updates(tr) == {i \in 1..Len(tr) : tr[i].op = "update"}

Writes(tr) == {i \in Updates(tr) : tr[i].wrote}

IsUpdate(tr, i) == i \in 1..Len(tr) /\ tr[i].op = "update"

IsDispose(tr, i) == i \in 1..Len(tr) /\ tr[i].op = "dispose"

\* Only update() has been called since construction.
OnlyUpdates(tr) == \A i \in 1..Len(tr) : tr[i].op = "update"

\* The index of the first call after the latest dispose() (1 if none).
SegmentStart(tr) ==
    LET ds == {i \in 1..Len(tr) : tr[i].op = "dispose"}
    IN  IF ds = {} THEN 1 ELSE (CHOOSE i \in ds : \A j \in ds : j <= i) + 1

\* The step appends one update() call to the trace.
UpdateStep == Len(trace') = Len(trace) + 1 /\ trace'[Len(trace')].op = "update"

\* The timestamp passed by the update() call of an UpdateStep.
StepTime == trace'[Len(trace')].time

\* n is x rounded to the nearest integer (ties up), for x = a / b, b > 0.
IsRounded(n, a, b) == (2 * n - 1) * b <= 2 * a /\ 2 * a < (2 * n + 1) * b

----------------------------------------------------------------------------
(* C1: any two display writes made by update() are at timestamps at least  *)
(* 1000 ms apart: update() never rewrites the display targets on two calls *)
(* less than 1000 ms apart.                                                *)

C1_WritesAtLeastIntervalApart ==
    \A i \in Writes(trace) : \A j \in Writes(trace) :
        i < j => trace[j].time - trace[i].time >= 1000

\* Two writes by update(), with calls that did not write between and after.
C1_Witness ==
    /\ Cardinality(Writes(trace)) >= 2
    /\ \E i \in Updates(trace) : \E j \in Writes(trace) :
          i > j /\ ~trace[i].wrote /\ trace[i].time > trace[j].time

----------------------------------------------------------------------------
(* C2: an update(t) call writes the two display targets exactly when       *)
(* t - lastFPSUpdate >= 1000 and the sample window, after this call's      *)
(* push, is not empty.  When it writes, the FPS target gets the currentFPS *)
(* computed in this call as an integer string, the frame-time target gets  *)
(* the window average as a two-decimal string, and lastFPSUpdate becomes   *)
(* t; when it does not, the texts and lastFPSUpdate are unchanged.         *)

C2_WriteEffect ==
    LET wrote == domWrites' # domWrites
    IN  /\ wrote <=> (StepTime - lastFPSUpdate >= 1000 /\ frameTimes' # <<>>)
        /\ wrote =>
             /\ textContent'[fpsElement] = ToString(currentFPS')
             /\ textContent'[frameTimeElement] = ToFixed2(Average(frameTimes'))
             /\ lastFPSUpdate' = StepTime
        /\ ~wrote => UNCHANGED <<textContent, lastFPSUpdate>>

C2_UpdateWritesIffDue == [][UpdateStep => C2_WriteEffect]_vars

\* A call that wrote exactly 1000 ms after the previous write, showing a
\* text that is not the initial one, after a call that was held back.
C2_Witness ==
    /\ \E i \in Writes(trace) : \E j \in Writes(trace) :
          /\ j = Len(trace)
          /\ trace[j].time - trace[i].time = 1000
          /\ \E k \in Updates(trace) : i < k /\ k < j /\ ~trace[k].wrote
    /\ textContent[fpsElement] = ToString(currentFPS)
    /\ textContent[frameTimeElement] = ToFixed2(Average(frameTimes))
    /\ currentFPS > 0

----------------------------------------------------------------------------
(* C3: in every reachable state the sample window holds at most 60         *)
(* entries.                                                                *)

C3_WindowAtMost60 == Len(frameTimes) <= 60

\* More than 60 deltas have been pushed since construction or the latest
\* dispose(): the window is full and its oldest entry has been evicted.
C3_Witness ==
    /\ Len(frameTimes) = 60
    /\ Len(trace) - SegmentStart(trace) >= 61
    /\ \A i \in SegmentStart(trace)..Len(trace) : trace[i].op = "update"
    /\ trace[SegmentStart(trace)].time > 0

----------------------------------------------------------------------------
(* C4: on a fresh monitor, the second update() call and every later one    *)
(* appends delta = currentTimestamp - lastTimestamp to the sample window,  *)
(* so the window is empty only before the second update() call.            *)

C4_SecondCallAppendsDelta ==
    (OnlyUpdates(trace) /\ Len(trace) >= 2) =>
        /\ frameTimes # <<>>
        /\ frameTimes[Len(frameTimes)]
             = trace[Len(trace)].time - trace[Len(trace) - 1].time

----------------------------------------------------------------------------
(* C5: in every reachable state currentFPS is the value derived from the   *)
(* sample window, round(1000 / average(window)) when the window is not     *)
(* empty and its average is positive and 0 otherwise, and                  *)
(* getCurrentFrameTime() is average(window), or 0 for an empty window.     *)

\* The sum of the window, counted from its newest entry.
RECURSIVE Total(_, _)
Total(s, n) == IF n = 0 THEN 0 ELSE s[n] + Total(s, n - 1)

C5_StatsDerivedFromWindow ==
    LET n == Len(frameTimes)
        total == Total(frameTimes, n)
    IN  /\ IF n > 0 /\ total > 0
           THEN IsRounded(getCurrentFPS, 1000 * n, total)
           ELSE getCurrentFPS = 0
        /\ IF n = 0
           THEN getCurrentFrameTime.num = 0
           ELSE getCurrentFrameTime.num * n = total * getCurrentFrameTime.den
        /\ getCurrentFrameTime.den > 0

\* A window of unequal deltas whose rate 1000 / average is a tie (x.5) or is
\* rounded up in earnest.
C5_Witness ==
    /\ Len(frameTimes) >= 2
    /\ \E i \in 1..Len(frameTimes) : frameTimes[i] # frameTimes[1]
    /\ currentFPS * Sum(frameTimes) > 1000 * Len(frameTimes)

\* A window whose average is zero: the rate reads 0.
C5_ZeroAverage == frameTimes # <<>> /\ Sum(frameTimes) = 0 /\ currentFPS = 0

----------------------------------------------------------------------------
(* C6: after exactly one update() call on a freshly constructed monitor,   *)
(* for any timestamp, getCurrentFPS() is 0, getCurrentFrameTime() is 0 and *)
(* no display write has happened.                                          *)

C6_FirstCallMeasuresNothing ==
    (Len(trace) = 1 /\ trace[1].op = "update") =>
        /\ getCurrentFPS = 0
        /\ getCurrentFrameTime.num = 0
        /\ ~trace[1].wrote
        /\ domWrites = 0
        /\ textContent = [e \in {FpsId, FrameTimeId} |-> ""]

\* The one call came at a timestamp at which the display interval had
\* already elapsed.
C6_Witness ==
    /\ Len(trace) = 1
    /\ trace[1].op = "update"
    /\ trace[1].time >= 1000
    /\ lastTime = trace[1].time

----------------------------------------------------------------------------
(* C7: after n >= 2 update() calls on a fresh monitor with strictly        *)
(* increasing timestamps of constant spacing d, starting at any timestamp  *)
(* >= 0, getCurrentFPS() equals round(1000 / d).                           *)

ConstantSpacing(tr, d) ==
    \A i \in 2..Len(tr) : tr[i].time - tr[i - 1].time = d

C7_ConstantSpacingRate ==
    \A d \in Deltas \ {0} :
        (OnlyUpdates(trace) /\ Len(trace) >= 2 /\ ConstantSpacing(trace, d))
            => IsRounded(getCurrentFPS, 1000, d)

----------------------------------------------------------------------------
(* C8: with increasing timestamps, as soon as the update() calls made      *)
(* since construction (or since the latest dispose()) span at least 1000   *)
(* ms, at least one of them has written the display.                       *)

StrictlyIncreasing(tr) ==
    \A i \in Updates(tr) : \A j \in Updates(tr) : i < j => tr[i].time < tr[j].time

C8_WriteWithinSpan ==
    LET first == SegmentStart(trace)
        last == Len(trace)
    IN  (/\ StrictlyIncreasing(trace)
         /\ first <= last
         /\ trace[last].time - trace[first].time >= 1000)
            => \E i \in first..last : trace[i].wrote

----------------------------------------------------------------------------
(* C9: after the monitor's dispose(), whatever update() calls preceded it, *)
(* getCurrentFPS() is 0, getCurrentFrameTime() is 0, the sample window is  *)
(* empty, the last-frame timestamp is 0 and both display targets show "0". *)

C9_DisposeResets ==
    IsDispose(trace, Len(trace)) =>
        /\ getCurrentFPS = 0
        /\ getCurrentFrameTime.num = 0
        /\ frameTimes = <<>>
        /\ lastTime = 0
        /\ textContent[FpsId] = "0"
        /\ textContent[FrameTimeId] = "0"

\* dispose() came right after an update() call that measured a positive
\* rate and wrote it to the display.
C9_Witness ==
    /\ Len(trace) >= 3
    /\ IsDispose(trace, Len(trace))
    /\ IsUpdate(trace, Len(trace) - 1)
    /\ trace[Len(trace) - 1].wrote
    /\ trace[Len(trace) - 1].time > trace[Len(trace) - 2].time
    /\ currentFPS = 0

----------------------------------------------------------------------------
(* C10: dispose() is idempotent: a dispose() that follows a dispose()      *)
(* leaves the monitor's state and the display texts exactly as the first   *)
(* one left them, and the display-target references are always those       *)
(* resolved at construction.                                               *)

C10_DisposeIdempotent ==
    [][/\ (IsDispose(trace, Len(trace)) /\ IsDispose(trace', Len(trace')))
            => UNCHANGED <<monitor, textContent>>
       /\ fpsElement' = FpsId
       /\ frameTimeElement' = FrameTimeId]_vars

\* Two dispose() calls in a row, after a run in which update() had written
\* to the display.
C10_Witness ==
    /\ Len(trace) >= 4
    /\ IsDispose(trace, Len(trace))
    /\ IsDispose(trace, Len(trace) - 1)
    /\ Writes(trace) # {}
    /\ textContent[fpsElement] = "0"

----------------------------------------------------------------------------
(* C11: constructing the monitor throws when the FPS id or the frame-time  *)
(* id does not resolve to an element of the page, and otherwise succeeds,  *)
(* storing exactly the two elements the ids resolve to.                    *)

C11_ConstructorFailsFast ==
    construction.state # "none" =>
        LET bothPresent == /\ construction.fpsId \in document
                           /\ construction.frameTimeId \in document
        IN  /\ construction.state = "threw" <=> ~bothPresent
            /\ construction.state = "ok" <=> bothPresent
            /\ bothPresent =>
                 /\ fpsElement = construction.fpsId
                 /\ frameTimeElement = construction.frameTimeId
            /\ ~bothPresent =>
                 /\ fpsElement = NoElement
                 /\ frameTimeElement = NoElement
                 /\ trace = <<>>

\* The constructor threw because only the frame-time element was absent.
C11_Witness ==
    /\ construction.state = "threw"
    /\ construction.fpsId \in document
    /\ construction.frameTimeId \notin document

\* The constructor succeeded and the monitor it built has written through
\* both stored references.
C11_WitnessOk ==
    /\ construction.state = "ok"
    /\ fpsElement # frameTimeElement
    /\ Writes(trace) # {}

----------------------------------------------------------------------------
(* C20: after k delta-producing update() calls since construction or the   *)
(* latest dispose(), the sample window is the last min(k, 60) deltas in    *)
(* arrival order: a delta arriving at a full window evicts exactly the     *)
(* oldest entry and keeps the order of the others.                         *)

\* The i-th call is an update() that found a recorded previous timestamp.
DeltaProducing(tr, i) ==
    /\ i \in 2..Len(tr)
    /\ tr[i].op = "update"
    /\ tr[i - 1].op = "update"
    /\ tr[i - 1].time > 0

\* The deltas of the delta-producing calls from the i-th call on, in order.
RECURSIVE DeltasFrom(_, _)
DeltasFrom(tr, i) ==
    IF i > Len(tr) THEN <<>>
    ELSE (IF DeltaProducing(tr, i) THEN <<tr[i].time - tr[i - 1].time>> ELSE <<>>)
            \o DeltasFrom(tr, i + 1)

LastN(s, n) == IF Len(s) <= n THEN s ELSE SubSeq(s, Len(s) - n + 1, Len(s))

C20_WindowIsLastDeltas ==
    frameTimes = LastN(DeltasFrom(trace, SegmentStart(trace)), 60)

\* At least two deltas have been evicted from a window that was filled
\* after a dispose(), and the evicted ones differ from each other.
C20_Witness ==
    LET all == DeltasFrom(trace, SegmentStart(trace))
    IN  /\ Len(all) >= 62
        /\ all[1] # all[2]
        /\ SegmentStart(trace) > 1
        /\ Len(frameTimes) = 60

----------------------------------------------------------------------------
(* C12: across any sequence of start(), stop(), render(), dispose() and    *)
(* frame-callback firings, at most one frame callback of the controller is *)
(* pending in the host scheduler; start() while Running schedules nothing  *)
(* and starts no second loop.                                              *)

C12_AtMostOnePending ==
    /\ Cardinality(ScenePending) <= 1
    /\ (sceneLast.op = "start" /\ sceneLast.wasRunning) =>
          /\ sceneLast.draws = 0
          /\ ScenePending = {[id |-> animationId, owner |-> "scene"]}

\* start() was called on a loop that was running and had already run a
\* frame callback.
C12_Witness ==
    /\ sceneLast.op = "start"
    /\ sceneLast.wasRunning
    /\ sceneLast.prev = "frame"
    /\ Cardinality(ScenePending) = 1

----------------------------------------------------------------------------
(* C13: Disposed is terminal: once dispose() has been called, no later     *)
(* operation, start() included, makes the controller Running again,        *)
(* schedules a frame callback or causes a loop-driven render.              *)

C13_DisposedIsTerminal ==
    sceneDisposed =>
        /\ animationId = NoHandle
        /\ ScenePending = {}
        /\ sceneLast.op # "frame"
        /\ ~(sceneLast.op = "start" /\ sceneLast.draws > 0)

----------------------------------------------------------------------------
(* C14: after dispose() the resize listener registered at construction is  *)
(* no longer registered: a window resize event delivered after dispose()   *)
(* does not invoke handleResize() on the disposed controller.              *)

C14_ResizeListenerRemoved ==
    sceneDisposed =>
        /\ ResizeListeners = {}
        /\ ~(sceneLast.op = "resizeEvent" /\ sceneLast.handled > 0)

----------------------------------------------------------------------------
(* C15: the canvas is a child of the container from construction until the *)
(* first dispose(), and after dispose() the container has no such child,   *)
(* whether dispose() was called while Idle or while Running.               *)

C15_CanvasAttachedUntilDispose ==
    canvasParent = IF sceneDisposed THEN NoParent ELSE "container"

\* dispose() was called on a running loop and the canvas is detached.
C15_Witness ==
    /\ sceneLast.op = "dispose"
    /\ sceneLast.wasRunning
    /\ canvasParent = NoParent

\* dispose() was called on an idle controller and the canvas is detached.
C15_WitnessIdle ==
    /\ sceneLast.op = "dispose"
    /\ ~sceneLast.wasRunning
    /\ sceneLast.prev = "new"
    /\ canvasParent = NoParent

----------------------------------------------------------------------------
(* C16: after stop() followed by start() the controller is Running again   *)
(* with exactly one pending frame callback, every frame callback that runs *)
(* renders once and re-arms the loop, and under a fair frame scheduler a   *)
(* frame callback does run unless stop() or dispose() comes first.         *)

Restarted == sceneLast.op = "start" /\ sceneLast.prev = "stop"

C16_RestartResumesRendering ==
    /\ [](Restarted =>
            /\ animationId # NoHandle
            /\ ScenePending = {[id |-> animationId, owner |-> "scene"]})
    /\ [][sceneLast'.op = "frame" =>
            /\ sceneLast'.draws = 1
            /\ animationId' # NoHandle
            /\ ScenePending' = {[id |-> animationId', owner |-> "scene"]}]_vars
    /\ (Restarted ~> sceneLast.op \in {"frame", "stop", "dispose"})

\* start() right after a stop() that had halted a loop started earlier.
C16_Witness ==
    /\ Restarted
    /\ animationId # NoHandle
    /\ animationId # 1
    /\ Cardinality(ScenePending) = 1

----------------------------------------------------------------------------
(* C17: at construction the camera aspect ratio equals clientWidth /       *)
(* clientHeight when clientHeight is non-zero, and equals 1 whenever       *)
(* clientHeight is 0, for every clientWidth >= 0.                          *)

\* The number x equals a / b, for b > 0.
IsRatio(x, a, b) == x.kind = "finite" /\ x.num * b = a * x.den

C17_InitialAspect ==
    sceneLast.op = "new" =>
        IF clientSize[2] # 0
        THEN IsRatio(cameraAspect, clientSize[1], clientSize[2])
        ELSE IsRatio(cameraAspect, 1, 1)

----------------------------------------------------------------------------
(* C18: after handleResize() with container dimensions w > 0 and h > 0 the *)
(* camera aspect ratio equals w / h and the render surface size equals     *)
(* (w, h), whatever the dimensions at construction or at earlier resizes.  *)

C18_ResizeSetsAspectAndSize ==
    (/\ sceneLast.handled > 0
     /\ clientSize[1] > 0
     /\ clientSize[2] > 0)
        => /\ IsRatio(cameraAspect, clientSize[1], clientSize[2])
           /\ rendererSize = clientSize

\* handleResize() ran after the container went from 800x600 to 1920x1080:
\* the aspect is 16/9.
C18_Witness ==
    /\ sceneLast.op = "handleResize"
    /\ sceneLast.prev = "layout"
    /\ clientSize = <<1920, 1080>>
    /\ cameraAspect = Finite(16, 9)
    /\ rendererSize = <<1920, 1080>>

----------------------------------------------------------------------------
(* C19: when the underlying model load fails, loadOBJ() returns a promise  *)
(* rejected with the original error, the scene's contents are what they    *)
(* were before (nothing is added), and the controller's lifecycle state    *)
(* and pending callback are unaffected.                                    *)

C19_FailedLoadChangesNothing ==
    [][(headLoad.promise = "pending" /\ headLoad'.promise = "rejected") =>
          /\ headLoad'.error = sceneLast'.error
          /\ headLoad'.error # ""
          /\ sceneObjects' = sceneObjects
          /\ headModel' = headModel
          /\ animationId' = animationId
          /\ pending' = pending
          /\ sceneDisposed' = sceneDisposed]_vars

\* The load failed while the loop was running with a callback pending.
C19_Witness ==
    /\ sceneLast.op = "load"
    /\ headLoad.promise = "rejected"
    /\ headLoad.error = "404 Not Found"
    /\ animationId # NoHandle
    /\ ScenePending # {}
    /\ sceneObjects = InitialObjects

----------------------------------------------------------------------------
(* C21: stop() while Running cancels the pending frame callback and makes  *)
(* the controller Idle, and no loop-driven render happens after it until   *)
(* start() is called again; stop() while Idle cancels nothing and changes  *)
(* no state.                                                               *)

\* The state of the controller and of the host, without the record of the
\* latest step.
SceneState == <<animationId, pending, nextHandle, listeners, clientSize,
                cameraAspect, rendererSize, canvasParent, sceneObjects,
                headModel, headLoad, keys>>

C21_StopHaltsLoop ==
    /\ [][sceneLast'.op = "stop" =>
            /\ animationId' = NoHandle
            /\ ScenePending' = {}
            /\ sceneLast'.draws = 0
            /\ IF animationId # NoHandle
               THEN pending' = pending \ {[id |-> animationId, owner |-> "scene"]}
               ELSE SceneState' = SceneState]_vars
    /\ [][sceneLast'.op = "frame" =>
            /\ animationId # NoHandle
            /\ sceneLast.op # "stop"]_vars
    /\ [][(animationId = NoHandle /\ animationId' # NoHandle) =>
            sceneLast'.op = "start"]_vars

\* stop() halted a loop that had run a frame callback: the callback that
\* was pending is gone.
C21_Witness ==
    /\ sceneLast.op = "stop"
    /\ sceneLast.wasRunning
    /\ sceneLast.prev = "frame"
    /\ animationId = NoHandle
    /\ pending = {}

\* stop() was called on an idle controller.
C21_WitnessIdle ==
    /\ sceneLast.op = "stop"
    /\ ~sceneLast.wasRunning
    /\ sceneLast.prev = "new"

----------------------------------------------------------------------------
(* C23: dispose() of the controller is idempotent: a second dispose()      *)
(* completes without error and leaves the state a single dispose() leaves  *)
(* (no pending frame callback, canvas detached, scene contents cleared).   *)

C23_DisposeIdempotent ==
    /\ [](sceneLast.op = "dispose" =>
            /\ sceneLast.error = ""
            /\ animationId = NoHandle
            /\ ScenePending = {}
            /\ canvasParent = NoParent
            /\ sceneObjects = {})
    /\ [][(sceneLast.op = "dispose" /\ sceneLast'.op = "dispose") =>
            SceneState' = SceneState]_vars

\* dispose() was called twice in a row on a loop that was running, after
\* the head model had been added to the scene.
C23_Witness ==
    /\ sceneLast.op = "dispose"
    /\ sceneLast.prev = "dispose"
    /\ ~sceneLast.wasRunning
    /\ headModel # NoModel
    /\ nextHandle # 1
    /\ sceneObjects = {}

----------------------------------------------------------------------------
(* C24: a direct render() call, on an Idle or a Running controller, issues *)
(* exactly one draw call and changes neither animationId nor the set of    *)
(* pending frame callbacks.                                                *)

C24_RenderIsPure ==
    [][sceneLast'.op = "render" =>
          /\ sceneLast'.draws = 1
          /\ animationId' = animationId
          /\ pending' = pending
          /\ nextHandle' = nextHandle]_vars

\* render() was called directly while the loop was running.
C24_Witness ==
    /\ sceneLast.op = "render"
    /\ sceneLast.wasRunning
    /\ ScenePending # {}

\* render() was called directly on an idle controller.
C24_WitnessIdle ==
    /\ sceneLast.op = "render"
    /\ ~sceneLast.wasRunning
    /\ pending = {}

----------------------------------------------------------------------------
(* C26: between operations, animationId is non-null if and only if exactly *)
(* one frame callback of the controller is pending, and that callback's id *)
(* is animationId: no callback is pending that stop() could not cancel.    *)

C26_IdMatchesPending ==
    ScenePending = IF animationId = NoHandle
                   THEN {}
                   ELSE {[id |-> animationId, owner |-> "scene"]}

\* The loop has run long enough for the host to hand out an id again.
C26_Witness ==
    /\ sceneLast.op = "frame"
    /\ sceneLast.prev = "frame"
    /\ animationId = 1
    /\ ScenePending = {[id |-> 1, owner |-> "scene"]}

\* The loop was stopped and nothing is pending.
C26_WitnessIdle ==
    /\ sceneLast.op = "stop"
    /\ sceneLast.wasRunning
    /\ animationId = NoHandle
    /\ ScenePending = {}

----------------------------------------------------------------------------
(* C28: after dispose() the scene's contents stay cleared: a head-model    *)
(* load started at construction that succeeds only after dispose() does    *)
(* not add the model to the disposed scene.                                *)

C28_LateLoadNotAdded ==
    sceneDisposed => sceneObjects = {}

----------------------------------------------------------------------------
(* C30: construction and handleResize() apply the same aspect policy:      *)
(* handleResize() right after construction, with the container unchanged,  *)
(* leaves the camera aspect as it was, for every container size; and       *)
(* handleResize() twice in a row gives the aspect and surface size of one  *)
(* call.                                                                   *)

C30_SameAspectPolicy ==
    /\ [][(sceneLast.op = "new" /\ sceneLast'.op = "handleResize") =>
            cameraAspect' = cameraAspect]_vars
    /\ [][(sceneLast.op = "handleResize" /\ sceneLast'.op = "handleResize") =>
            /\ cameraAspect' = cameraAspect
            /\ rendererSize' = rendererSize]_vars

----------------------------------------------------------------------------
(* C22: every frame-callback invocation first schedules the next callback  *)
(* and records its id and only then renders, so a stop() issued while a    *)
(* callback is executing cancels the newly scheduled callback, and the     *)
(* executing callback still completes its render: at most one more render  *)
(* after stop().                                                           *)

\* The executing callback has reached its render() and no stop() has come.
AboutToRender ==
    /\ executing # <<>>
    /\ Head(executing) = "render"
    /\ sceneLast.op # "stop"

\* stop() came while the callback was executing.
StoppedInCallback == executing # <<>> /\ sceneLast.op = "stop"

C22_ScheduleThenRender ==
    /\ [](AboutToRender =>
            /\ animationId # NoHandle
            /\ ScenePending = {[id |-> animationId, owner |-> "scene"]})
    /\ [](StoppedInCallback =>
            /\ animationId = NoHandle
            /\ ScenePending = {}
            /\ executing = <<"render">>)
    /\ [][StoppedInCallback =>
            /\ sceneLast'.op = "draw"
            /\ sceneLast'.draws = 1
            /\ executing' = <<>>
            /\ animationId' = NoHandle
            /\ ScenePending' = {}]_vars
    /\ [][sceneLast'.op = "callback" => sceneLast.op \notin {"stop", "draw"}
            \/ (sceneLast.op = "draw" /\ sceneLast.prev # "stop")]_vars
    /\ (StoppedInCallback ~> (sceneLast.op = "draw" /\ sceneLast.prev = "stop"))

\* stop() came during a callback of a loop that had already run one, and
\* the callback then finished its render.
C22_Witness ==
    /\ sceneLast.op = "draw"
    /\ sceneLast.prev = "stop"
    /\ sceneLast.draws = 1
    /\ executing = <<>>
    /\ animationId = NoHandle
    /\ pending = {}
    /\ nextHandle = 1

----------------------------------------------------------------------------
(* C29: the key-state map changes only through the controller's own        *)
(* keydown / keyup listeners (keydown sets the lower-cased key to true,    *)
(* keyup sets it to false), and after dispose() those listeners are        *)
(* removed, so later keyboard events no longer change the map.             *)

C29_KeysOnlyWhileAlive ==
    /\ [][keys' # keys =>
            /\ sceneLast'.op \in {"keydown", "keyup"}
            /\ sceneLast'.handled > 0
            /\ \E k \in {ToLowerCase(id) : id \in KeyIds} :
                  keys' = SetKey(keys, k, sceneLast'.op = "keydown")]_vars
    /\ [](sceneDisposed =>
            ListenersOf("keydown") \cup ListenersOf("keyup") = {})
    /\ [][sceneDisposed => keys' = keys]_vars

----------------------------------------------------------------------------
(* C27: after App.dispose() the application's frame loop is stopped: no    *)
(* frame callback of the App remains pending, and FPSCounter.update() and  *)
(* Scene.render() are never called again on the disposed components, so    *)
(* the monitor's FPS and display stay at 0.                                *)

C27_AppLoopStopped ==
    /\ [](sceneDisposed =>
            /\ AppPending = {}
            /\ currentFPS = 0
            /\ textContent[fpsElement] = "0"
            /\ textContent[frameTimeElement] = "0")
    /\ [][sceneDisposed =>
            /\ sceneLast'.op # "render"
            /\ Updates(trace') = Updates(trace)]_vars

----------------------------------------------------------------------------
(* C25: a monitor that has been disposed is observationally equivalent to  *)
(* a freshly constructed one: for every later sequence of update()         *)
(* timestamps it yields the same getCurrentFPS() and getCurrentFrameTime() *)
(* values and writes to the display on exactly the same calls as a fresh   *)
(* monitor fed the same sequence.                                          *)

\* The timestamps of the update() calls made since the latest dispose().
TimesSinceDispose(tr) ==
    [i \in 1..(Len(tr) + 1 - SegmentStart(tr)) |-> tr[SegmentStart(tr) + i - 1].time]

\* The fractions a and b are the same number.
SameFraction(a, b) == a.num * b.den = b.num * a.den

C25_DisposedActsFresh ==
    (Disposals(trace) > 0 /\ IsUpdate(trace, Len(trace))) =>
        LET fresh == Replay(FreshMonitor, TimesSinceDispose(trace))
        IN  /\ getCurrentFPS = fresh.currentFPS
            /\ SameFraction(getCurrentFrameTime,
                            IF Len(fresh.frameTimes) = 0 THEN Zero
                            ELSE Average(fresh.frameTimes))
            /\ trace[Len(trace)].wrote = fresh.wrote

====
